---- MODULE Spec2Model ----
(***************************************************************************)
(* Model of voice_medical_agent.py: the in-memory booking backend          *)
(* (ACCEPTED_INSURERS, BOOKINGS, SLOTS) and the three function tools of    *)
(* BookingAgent (check_insurance, get_slots, create_booking), called by    *)
(* several sessions that share the module globals.                         *)
(*                                                                         *)
(* Python str values that the code inspects (start_iso, date_pref,         *)
(* insurer_name) are sequences of one-character strings; values the code   *)
(* only stores (name, phone, insurer, reason, confirmation id) are opaque  *)
(* strings.  A Python dict is a record; None is the value None below.      *)
(***************************************************************************)
EXTENDS Integers, Sequences, FiniteSets, TLC

\* ------------------------------------------------------------------ bounds
MaxSessions == 2   \* sessions sharing the backend
MaxCalls == 3      \* tool calls issued in one behaviour

Sessions == 1..MaxSessions

\* ------------------------------------------------------- strings and dates
Digits == <<"0", "1", "2", "3", "4", "5", "6", "7", "8", "9">>

Pad2(n) == <<Digits[(n \div 10) + 1], Digits[(n % 10) + 1]>>

Pad4(n) == <<Digits[(n \div 1000) + 1], Digits[((n \div 100) % 10) + 1]>> \o Pad2(n % 100)

Min(a, b) == IF a <= b THEN a ELSE b

\* seq[:n]
Take(seq, n) == SubSeq(seq, 1, Min(n, Len(seq)))

\* str.startswith
StartsWith(str, prefix) ==
    /\ Len(prefix) <= Len(str)
    /\ SubSeq(str, 1, Len(prefix)) = prefix

Whitespace == {" ", "\t", "\n", "\r"}

RECURSIVE LStrip(_)
LStrip(str) ==
    IF str # <<>> /\ Head(str) \in Whitespace THEN LStrip(Tail(str)) ELSE str

RECURSIVE RStrip(_)
RStrip(str) ==
    IF str # <<>> /\ str[Len(str)] \in Whitespace
    THEN RStrip(SubSeq(str, 1, Len(str) - 1))
    ELSE str

\* str.strip
Strip(str) == RStrip(LStrip(str))

IsLeap(y) == (y % 4 = 0 /\ y % 100 # 0) \/ y % 400 = 0

DaysInMonth(y, m) ==
    IF m = 2 THEN (IF IsLeap(y) THEN 29 ELSE 28)
    ELSE IF m \in {4, 6, 9, 11} THEN 30 ELSE 31

\* datetime + timedelta(days=n)
RECURSIVE AddDays(_, _)
AddDays(dt, n) ==
    IF n = 0 THEN dt
    ELSE IF dt.day < DaysInMonth(dt.year, dt.month)
         THEN AddDays([dt EXCEPT !.day = dt.day + 1], n - 1)
    ELSE IF dt.month < 12
         THEN AddDays([dt EXCEPT !.day = 1, !.month = dt.month + 1], n - 1)
    ELSE AddDays([dt EXCEPT !.day = 1, !.month = 1, !.year = dt.year + 1], n - 1)

\* datetime.isoformat: the fraction is printed only when microsecond # 0
IsoFormat(dt) ==
    Pad4(dt.year) \o <<"-">> \o Pad2(dt.month) \o <<"-">> \o Pad2(dt.day)
      \o <<"T">> \o Pad2(dt.hour) \o <<":">> \o Pad2(dt.minute)
      \o <<":">> \o Pad2(dt.second)
      \o (IF dt.microsecond = 0 THEN <<>>
          ELSE <<".">> \o Pad2(dt.microsecond \div 10000)
                       \o Pad4(dt.microsecond % 10000))

\* --------------------------------------------------------------- backend
AcceptedInsurers ==
    { <<"A", "e", "t", "n", "a">>,
      <<"B", "l", "u", "e", " ", "C", "r", "o", "s", "s">>,
      <<"C", "i", "g", "n", "a">>,
      <<"M", "e", "d", "i", "c", "a", "r", "e">> }

daily == << <<10, 0>>, <<14, 30>>, <<16, 0>> >>

DurationMin == 20

DefaultNDays == 3

\* variant: the first day of slots is the day of now
DaySlots_from_today(now, d) ==
    LET base == [AddDays(now, d) EXCEPT
                    !.hour = 0, !.minute = 0, !.second = 0, !.microsecond = 0]
    IN  [i \in 1..Len(daily) |->
            [start_iso |-> IsoFormat([base EXCEPT !.hour = daily[i][1],
                                                  !.minute = daily[i][2]]),
             duration_min |-> DurationMin]]

\* the slots of day d (0-based) of the loop of _default_slots
DaySlots(now, d) ==
    LET base == [AddDays(now, d + 1) EXCEPT
                    !.hour = 0, !.minute = 0, !.second = 0, !.microsecond = 0]
    IN  [i \in 1..Len(daily) |->
            [start_iso |-> IsoFormat([base EXCEPT !.hour = daily[i][1],
                                                  !.minute = daily[i][2]]),
             duration_min |-> DurationMin]]

RECURSIVE SlotsUpTo(_, _)
SlotsUpTo(now, d) ==
    IF d = 0 THEN <<>> ELSE SlotsUpTo(now, d - 1) \o DaySlots(now, d - 1)

_default_slots(now, n_days) == SlotsUpTo(now, n_days)

\* values datetime.now() takes at import time
Nows ==
    { [year |-> 2025, month |-> 12, day |-> 30,
       hour |-> 17, minute |-> 45, second |-> 9, microsecond |-> 250000] }

\* values uuid.uuid4().hex[:8].upper() may take
ConfirmationIds == {"3F9A1C0E", "B7D2E815"}

None == [none |-> TRUE]

\* ------------------------------------------------------------ tool bodies
\* variant: the membership set is built from the first day's slots only
SlotStarts_first_day(slots) ==
    {slots[i].start_iso : i \in 1..Min(Len(daily), Len(slots))}

\* {s["start_iso"] for s in SLOTS}
SlotStarts(slots) == {slots[i].start_iso : i \in 1..Len(slots)}

\* variant: the name is looked up as given
check_insurance_no_strip(accepted_insurers, insurer_name) ==
    [accepted |-> insurer_name \in accepted_insurers]

\* body of check_insurance
check_insurance(accepted_insurers, insurer_name) ==
    [accepted |-> Strip(insurer_name) \in accepted_insurers]

\* truth value of an Optional[str]
Truthy(str) == str # None /\ str # <<>>

\* variant: the date preference is not applied
get_slots_no_filter(slots, date_pref) ==
    IF Truthy(date_pref) /\ slots # <<>>
    THEN [slots |-> Take(slots, 3)]
    ELSE [slots |-> Take(slots, 6)]

\* variant: the short limit is used on the fallback path too
get_slots_short_fallback(slots, date_pref) ==
    LET Matches(sl) == StartsWith(sl.start_iso, date_pref)
        pref == IF Truthy(date_pref) THEN SelectSeq(slots, Matches) ELSE <<>>
    IN  IF Truthy(date_pref) /\ pref # <<>>
        THEN [slots |-> Take(pref, 3)]
        ELSE [slots |-> Take(slots, 3)]

\* body of get_slots
get_slots(slots, date_pref) ==
    LET Matches(sl) == StartsWith(sl.start_iso, date_pref)
        pref == IF Truthy(date_pref) THEN SelectSeq(slots, Matches) ELSE <<>>
    IN  IF Truthy(date_pref) /\ pref # <<>>
        THEN [slots |-> Take(pref, 3)]
        ELSE [slots |-> Take(slots, 6)]

\* variant: insurer and reason are stored in each other's place
Booking_swapped(a, confirmation) ==
    [id |-> confirmation, name |-> a.name, phone |-> a.phone,
     insurer |-> a.reason, reason |-> a.insurer, slot_iso |-> a.slot_iso]

\* the dict appended to BOOKINGS
Booking(a, confirmation) ==
    [id |-> confirmation, name |-> a.name, phone |-> a.phone,
     insurer |-> a.insurer, reason |-> a.reason, slot_iso |-> a.slot_iso]

SlotUnavailable == [error |-> "slot_unavailable"]

Saved(confirmation) == [confirmation_id |-> confirmation, saved |-> TRUE]

\* variant: the validation accepts any prefix of a catalog start
create_booking_prefix_check(slots, bookings, a, confirmation) ==
    IF \A i \in 1..Len(slots) : ~StartsWith(slots[i].start_iso, a.slot_iso)
    THEN [ret |-> SlotUnavailable, bookings |-> bookings]
    ELSE [ret |-> Saved(confirmation),
          bookings |-> Append(bookings, Booking(a, confirmation))]

\* variant: no validation of slot_iso
create_booking_unvalidated(slots, bookings, a, confirmation) ==
    [ret |-> Saved(confirmation),
     bookings |-> Append(bookings, Booking(a, confirmation))]

\* variant: the booking is inserted at the head of the ledger
create_booking_prepend(slots, bookings, a, confirmation) ==
    IF a.slot_iso \notin SlotStarts(slots)
    THEN [ret |-> SlotUnavailable, bookings |-> bookings]
    ELSE [ret |-> Saved(confirmation),
          bookings |-> <<Booking(a, confirmation)>> \o bookings]

\* variant: the booking is stored before slot_iso is validated
create_booking_append_then_fail(slots, bookings, a, confirmation) ==
    IF a.slot_iso \notin SlotStarts(slots)
    THEN [ret |-> SlotUnavailable,
          bookings |-> Append(bookings, Booking(a, confirmation))]
    ELSE [ret |-> Saved(confirmation),
          bookings |-> Append(bookings, Booking(a, confirmation))]

\* body of create_booking: the value returned and BOOKINGS afterwards
create_booking(slots, bookings, a, confirmation) ==
    IF a.slot_iso \notin SlotStarts(slots)
    THEN [ret |-> SlotUnavailable, bookings |-> bookings]
    ELSE [ret |-> Saved(confirmation),
          bookings |-> Append(bookings, Booking(a, confirmation))]

\* ------------------------------------------------------------------ state
VARIABLES
    ACCEPTED_INSURERS,  \* module global, set of insurer names
    BOOKINGS,           \* module global, the ledger
    SLOTS,              \* module global, the catalog
    pc,                 \* pc[s]: "idle", or "pending" while a tool call of s is scheduled
    call,               \* call[s]: the latest tool call of session s and its arguments
    ret,                \* ret[s]: the value the latest finished tool call of s returned
    called_at,          \* called_at[s]: len(BOOKINGS) when the pending create_booking of s was issued, else 0
    offered_at,         \* offered_at[s]: len(BOOKINGS) when the get_slots result in ret[s] was returned, else 0
    log,                \* the finished create_booking calls, in the order they ran
    ncalls,             \* tool calls issued so far
    import_now,         \* the value datetime.now() gave _default_slots at import
    import_n_days       \* the n_days SLOTS was generated with

vars == <<ACCEPTED_INSURERS, BOOKINGS, SLOTS, pc, call, ret,
          called_at, offered_at, log, ncalls, import_now, import_n_days>>

\* the locals of the import-time call of _default_slots
imported == <<import_now, import_n_days>>

backend == <<ACCEPTED_INSURERS, BOOKINGS, SLOTS>>

\* ----------------------------------------------------------------- inputs
InsurerNameInputs == { <<" ", "C", "i", "g", "n", "a", " ">> }

\* no preference, and the date of the catalog's second day
DatePrefInputs == {None, Take(SLOTS[4].start_iso, 10)}

\* a string that is the start of no catalog slot (a bare date)
UnknownSlotIso == Take(SLOTS[1].start_iso, 10)

Patient(name, phone, insurer, reason, slot_iso) ==
    [name |-> name, phone |-> phone, insurer |-> insurer,
     reason |-> reason, slot_iso |-> slot_iso]

\* two callers after the same slot, one after another slot, one after no slot
BookingArgInputs ==
    { Patient("Ann Lee", "5550100", "Cigna", "sore throat", SLOTS[1].start_iso),
      Patient("Bo Chen", "5550111", "Acme Health", "", SLOTS[1].start_iso),
      Patient("Ann Lee", "5550100", "Cigna", "sore throat", SLOTS[4].start_iso),
      Patient("Bo Chen", "5550111", "Acme Health", "rash", UnknownSlotIso) }

\* ------------------------------------------------------------------- Init
Init ==
    /\ ACCEPTED_INSURERS = AcceptedInsurers
    /\ BOOKINGS = <<>>
    /\ import_now \in Nows
    /\ import_n_days = DefaultNDays
    /\ SLOTS = _default_slots(import_now, import_n_days)
    /\ pc = [s \in Sessions |-> "idle"]
    /\ call = [s \in Sessions |-> None]
    /\ ret = [s \in Sessions |-> None]
    /\ called_at = [s \in Sessions |-> 0]
    /\ offered_at = [s \in Sessions |-> 0]
    /\ log = <<>>
    /\ ncalls = 0

\* ---------------------------------------------------------------- actions
\* the dialogue engine issues a tool call for session s
Issue(s, c) ==
    /\ pc[s] = "idle"
    /\ ncalls < MaxCalls
    /\ pc' = [pc EXCEPT ![s] = "pending"]
    /\ call' = [call EXCEPT ![s] = c]
    /\ ncalls' = ncalls + 1
    /\ UNCHANGED <<backend, imported, ret, offered_at, log>>

CallCheckInsurance(s) ==
    /\ \E insurer_name \in InsurerNameInputs :
          Issue(s, [op |-> "check_insurance", insurer_name |-> insurer_name])
    /\ UNCHANGED called_at

CallGetSlots(s) ==
    /\ \E date_pref \in DatePrefInputs :
          Issue(s, [op |-> "get_slots", date_pref |-> date_pref])
    /\ UNCHANGED called_at

CallCreateBooking(s) ==
    /\ \E a \in BookingArgInputs :
          Issue(s, [op |-> "create_booking", args |-> a])
    /\ called_at' = [called_at EXCEPT ![s] = Len(BOOKINGS)]

Pending(s, op) == pc[s] = "pending" /\ call[s].op = op

\* a coroutine body without await runs to its return in one step
RunCheckInsurance(s) ==
    /\ Pending(s, "check_insurance")
    /\ ret' = [ret EXCEPT ![s] = check_insurance(ACCEPTED_INSURERS, call[s].insurer_name)]
    /\ offered_at' = [offered_at EXCEPT ![s] = 0]
    /\ pc' = [pc EXCEPT ![s] = "idle"]
    /\ UNCHANGED <<backend, imported, call, called_at, log, ncalls>>

\* variant: the slots that a booking references are left out of the listing
RunGetSlots_unbooked(s) ==
    LET Free(sl) == \A i \in 1..Len(BOOKINGS) : BOOKINGS[i].slot_iso # sl.start_iso
    IN  /\ Pending(s, "get_slots")
        /\ ret' = [ret EXCEPT ![s] = get_slots(SelectSeq(SLOTS, Free), call[s].date_pref)]
        /\ offered_at' = [offered_at EXCEPT ![s] = Len(BOOKINGS)]
        /\ pc' = [pc EXCEPT ![s] = "idle"]
        /\ UNCHANGED <<backend, imported, call, called_at, log, ncalls>>

\* variant: the slots handed out are taken off the catalog
RunGetSlots_pop(s) ==
    LET r == get_slots(SLOTS, call[s].date_pref)
        Kept(sl) == \A k \in 1..Len(r.slots) : r.slots[k] # sl
    IN  /\ Pending(s, "get_slots")
        /\ ret' = [ret EXCEPT ![s] = r]
        /\ SLOTS' = SelectSeq(SLOTS, Kept)
        /\ offered_at' = [offered_at EXCEPT ![s] = Len(BOOKINGS)]
        /\ pc' = [pc EXCEPT ![s] = "idle"]
        /\ UNCHANGED <<ACCEPTED_INSURERS, BOOKINGS, imported, call, called_at, log, ncalls>>

RunGetSlots(s) ==
    /\ Pending(s, "get_slots")
    /\ ret' = [ret EXCEPT ![s] = get_slots(SLOTS, call[s].date_pref)]
    /\ offered_at' = [offered_at EXCEPT ![s] = Len(BOOKINGS)]
    /\ pc' = [pc EXCEPT ![s] = "idle"]
    /\ UNCHANGED <<backend, imported, call, called_at, log, ncalls>>

\* variant: the body works on the ledger as it was when the call was issued
\* and writes that copy back (a read, a suspension, a write)
RunCreateBooking_stale(s) ==
    /\ Pending(s, "create_booking")
    /\ \E confirmation \in ConfirmationIds :
        LET r == create_booking(SLOTS, SubSeq(BOOKINGS, 1, called_at[s]),
                                call[s].args, confirmation)
        IN  /\ BOOKINGS' = r.bookings
            /\ ret' = [ret EXCEPT ![s] = r.ret]
            /\ log' = Append(log, [args |-> call[s].args, ret |-> r.ret])
    /\ called_at' = [called_at EXCEPT ![s] = 0]
    /\ offered_at' = [offered_at EXCEPT ![s] = 0]
    /\ pc' = [pc EXCEPT ![s] = "idle"]
    /\ UNCHANGED <<ACCEPTED_INSURERS, SLOTS, imported, call, ncalls>>

RunCreateBooking(s) ==
    /\ Pending(s, "create_booking")
    /\ \E confirmation \in ConfirmationIds :
        LET r == create_booking(SLOTS, BOOKINGS, call[s].args, confirmation)
        IN  /\ BOOKINGS' = r.bookings
            /\ ret' = [ret EXCEPT ![s] = r.ret]
            /\ log' = Append(log, [args |-> call[s].args, ret |-> r.ret])
    /\ called_at' = [called_at EXCEPT ![s] = 0]
    /\ offered_at' = [offered_at EXCEPT ![s] = 0]
    /\ pc' = [pc EXCEPT ![s] = "idle"]
    /\ UNCHANGED <<ACCEPTED_INSURERS, SLOTS, imported, call, ncalls>>

Next ==
    \E s \in Sessions :
        \/ CallCheckInsurance(s)
        \/ CallGetSlots(s)
        \/ CallCreateBooking(s)
        \/ RunCheckInsurance(s)
        \/ RunGetSlots(s)
        \/ RunCreateBooking(s)

Spec == Init /\ [][Next]_vars

\* ------------------------------------------- the tools as pure functions
\* Each behaviour of SpecPure imports the module with one reference time
\* and one n_days, and runs one read-only tool call on one argument.
MaxNDays == 4      \* n_days values tried for _default_slots

NowInputs ==
    Nows \cup
    { [year |-> 2025, month |-> 6, day |-> 9,
       hour |-> 8, minute |-> 5, second |-> 17, microsecond |-> 250000],
      [year |-> 2025, month |-> 6, day |-> 28,
       hour |-> 16, minute |-> 0, second |-> 0, microsecond |-> 0],
      [year |-> 2025, month |-> 12, day |-> 31,
       hour |-> 23, minute |-> 59, second |-> 59, microsecond |-> 999999],
      [year |-> 2024, month |-> 2, day |-> 27,
       hour |-> 0, minute |-> 0, second |-> 0, microsecond |-> 0],
      [year |-> 2025, month |-> 2, day |-> 27,
       hour |-> 10, minute |-> 0, second |-> 0, microsecond |-> 0],
      [year |-> 2000, month |-> 2, day |-> 28,
       hour |-> 14, minute |-> 30, second |-> 0, microsecond |-> 0],
      [year |-> 2100, month |-> 2, day |-> 26,
       hour |-> 9, minute |-> 9, second |-> 9, microsecond |-> 9],
      [year |-> 2025, month |-> 1, day |-> 30,
       hour |-> 14, minute |-> 29, second |-> 59, microsecond |-> 0],
      [year |-> 2025, month |-> 4, day |-> 29,
       hour |-> 16, minute |-> 0, second |-> 1, microsecond |-> 0],
      [year |-> 2025, month |-> 8, day |-> 31,
       hour |-> 12, minute |-> 0, second |-> 0, microsecond |-> 0],
      [year |-> 2025, month |-> 9, day |-> 9,
       hour |-> 9, minute |-> 9, second |-> 9, microsecond |-> 90000],
      [year |-> 1999, month |-> 12, day |-> 29,
       hour |-> 6, minute |-> 30, second |-> 0, microsecond |-> 0] }

PureInsurerNameInputs ==
    { <<"C", "i", "g", "n", "a">>,
      <<" ", "C", "i", "g", "n", "a", " ">>,
      <<"c", "i", "g", "n", "a">>,
      <<"C", "I", "G", "N", "A">>,
      <<>>,
      <<" ">>,
      <<" ", " ", "\t">>,
      <<"\t", "A", "e", "t", "n", "a", "\n">>,
      <<"B", "l", "u", "e", " ", "C", "r", "o", "s", "s">>,
      <<"B", "l", "u", "e", " ", " ", "C", "r", "o", "s", "s">>,
      <<"B", "l", "u", "e", "C", "r", "o", "s", "s">>,
      <<" ", "B", "l", "u", "e", " ", "C", "r", "o", "s", "s", "\r">>,
      <<"M", "e", "d", "i", "c", "a", "r", "e", " ", "x">>,
      <<"C", " ", "i", "g", "n", "a">>,
      <<"M", "e", "d", "i", "c", "a", "r", "e">>,
      <<"A", "e", "t", "n">> }

NoSlotDate == <<"1", "9", "9", "9", "-", "0", "1", "-", "0", "1">>

\* the empty string, a date without slots, the dates of the catalog, and
\* strings that are no dates (a year and month, a full start)
PureDatePrefInputs ==
    {<<>>, NoSlotDate}
      \cup {Take(SLOTS[i].start_iso, 10) : i \in 1..Len(SLOTS)}
      \cup {Take(SLOTS[i].start_iso, 7) : i \in 1..Len(SLOTS)}
      \cup {SLOTS[i].start_iso : i \in 1..Min(1, Len(SLOTS))}

\* session s has the call c pending, the other sessions have made no call
OnlyCall(s, c) ==
    /\ pc = [t \in Sessions |-> IF t = s THEN "pending" ELSE "idle"]
    /\ call = [t \in Sessions |-> IF t = s THEN c ELSE None]

InitPure ==
    /\ ACCEPTED_INSURERS = AcceptedInsurers
    /\ BOOKINGS = <<>>
    /\ import_now \in NowInputs
    /\ import_n_days \in 0..MaxNDays
    /\ SLOTS = _default_slots(import_now, import_n_days)
    /\ \E s \in Sessions :
          \/ \E n \in PureInsurerNameInputs :
                OnlyCall(s, [op |-> "check_insurance", insurer_name |-> n])
          \/ \E p \in PureDatePrefInputs :
                OnlyCall(s, [op |-> "get_slots", date_pref |-> p])
          \/ OnlyCall(s, [op |-> "get_slots", date_pref |-> None])
    /\ ret = [s \in Sessions |-> None]
    /\ called_at = [s \in Sessions |-> 0]
    /\ offered_at = [s \in Sessions |-> 0]
    /\ log = <<>>
    /\ ncalls = 1

NextPure ==
    \E s \in Sessions :
        \/ RunCheckInsurance(s)
        \/ RunGetSlots(s)

SpecPure == InitPure /\ [][NextPure]_vars

\* ------------------------------------------------------ claim vocabulary
\* session s holds the result of a finished call of op
Finished(s, op) == pc[s] = "idle" /\ call[s] # None /\ call[s].op = op

\* this step is the return of a pending call of op by session s
Returns(s, op) == Pending(s, op) /\ pc'[s] = "idle"

IsSaved(r) == "saved" \in DOMAIN r /\ r.saved = TRUE

\* indices of the bookings that reference slot_iso
BookingsOf(bookings, slot_iso) ==
    {i \in 1..Len(bookings) : bookings[i].slot_iso = slot_iso}

\* the value uuid4 gave the logged call (none is drawn on the error path)
Drawn(r) == IF IsSaved(r) THEN r.confirmation_id ELSE "unused"

\* the logged calls run one after another from the empty ledger
RECURSIVE Replay(_)
Replay(l) ==
    IF l = <<>> THEN [bookings |-> <<>>, rets |-> <<>>]
    ELSE LET before == Replay(SubSeq(l, 1, Len(l) - 1))
             e == l[Len(l)]
             r == create_booking(SLOTS, before.bookings, e.args, Drawn(e.ret))
         IN  [bookings |-> r.bookings, rets |-> Append(before.rets, r.ret)]

\* ----------------------------------------------------------------- claims
\* C1 (invariant I1): for each slot start at most one booking in the ledger
\* references it.  The code has no duplicate check, so this is violated.
C1_AtMostOneBookingPerSlot ==
    \A i, j \in 1..Len(BOOKINGS) :
        BOOKINGS[i].slot_iso = BOOKINGS[j].slot_iso => i = j

\* C2 (uniqueness under race): of the sessions that call create_booking with
\* the same catalog slot while it is unbooked, only one is saved: a call that
\* was issued while the slot was unbooked and returns after an overlapping
\* call has booked the slot gets slot_unavailable.
C2_ExactlyOneWinsRace ==
    [][\A s \in Sessions :
          ( /\ Returns(s, "create_booking")
            /\ call[s].args.slot_iso \in SlotStarts(SLOTS)
            /\ BookingsOf(SubSeq(BOOKINGS, 1, called_at[s]),
                          call[s].args.slot_iso) = {}
            /\ BookingsOf(BOOKINGS, call[s].args.slot_iso) # {} )
          => /\ ret'[s] = SlotUnavailable
             /\ Cardinality(BookingsOf(BOOKINGS', call[s].args.slot_iso)) = 1]_vars

\* C3: create_booking with a slot_iso that a booking in the ledger already
\* references returns slot_unavailable.
C3_BookedSlotRejected ==
    [][\A s \in Sessions :
          ( /\ Returns(s, "create_booking")
            /\ BookingsOf(BOOKINGS, call[s].args.slot_iso) # {} )
          => ret'[s] = SlotUnavailable]_vars

\* C4 (rejection of unknown slot): create_booking with a slot_iso that is the
\* start_iso of no catalog slot returns slot_unavailable, whatever the other
\* arguments and the ledger.
C4_UnknownSlotRejected ==
    [][\A s \in Sessions :
          ( /\ Returns(s, "create_booking")
            /\ \A i \in 1..Len(SLOTS) : SLOTS[i].start_iso # call[s].args.slot_iso )
          => ret'[s] = SlotUnavailable]_vars

C4_Witness ==
    \E s \in Sessions :
        /\ Finished(s, "create_booking")
        /\ \A i \in 1..Len(SLOTS) : SLOTS[i].start_iso # call[s].args.slot_iso
        /\ ret[s] = SlotUnavailable
        /\ BOOKINGS # <<>>

\* C5 (invariant I3): every booking in the ledger has the start_iso of a
\* catalog slot as its slot_iso, and no step changes SLOTS.
C5_BookingsReferenceCatalog ==
    /\ [](\A i \in 1..Len(BOOKINGS) :
            \E k \in 1..Len(SLOTS) : SLOTS[k].start_iso = BOOKINGS[i].slot_iso)
    /\ [][SLOTS' = SLOTS]_vars

C5_Witness ==
    /\ Len(BOOKINGS) >= 2
    /\ BOOKINGS[1].slot_iso # BOOKINGS[2].slot_iso
    /\ \E s \in Sessions : Finished(s, "create_booking") /\ ret[s] = SlotUnavailable

\* C6 (invariant I2): no two bookings in the ledger have the same
\* confirmation id, whatever value the id generator produces.
C6_ConfirmationIdsUnique ==
    \A i, j \in 1..Len(BOOKINGS) :
        BOOKINGS[i].id = BOOKINGS[j].id => i = j

\* C7 (catalog containment): when a session holds a get_slots result and no
\* booking of one of its slots was stored since that result was returned,
\* create_booking with that slot's start_iso returns a confirmation.
C7_OfferedSlotBookable ==
    [][\A s, t \in Sessions :
          ( /\ Returns(t, "create_booking")
            /\ "slots" \in DOMAIN ret[s]
            /\ \E k \in 1..Len(ret[s].slots) :
                  ret[s].slots[k].start_iso = call[t].args.slot_iso
            /\ \A i \in (offered_at[s] + 1)..Len(BOOKINGS) :
                  BOOKINGS[i].slot_iso # call[t].args.slot_iso )
          => /\ IsSaved(ret'[t])
             /\ DOMAIN ret'[t] = {"confirmation_id", "saved"}]_vars

C7_Witness ==
    \E s, t \in Sessions :
        /\ s # t
        /\ Finished(s, "get_slots")
        /\ call[s].date_pref # None
        /\ Finished(t, "create_booking")
        /\ \E k \in 1..Len(ret[s].slots) :
              ret[s].slots[k].start_iso = call[t].args.slot_iso
        /\ offered_at[s] < Len(BOOKINGS)
        /\ BookingsOf(BOOKINGS, call[t].args.slot_iso) = {Len(BOOKINGS)}
        /\ IsSaved(ret[t])

C9_AppendOnly ==
    [][/\ Len(BOOKINGS') >= Len(BOOKINGS)
       /\ SubSeq(BOOKINGS', 1, Len(BOOKINGS)) = BOOKINGS
       /\ \A s \in Sessions :
             (Returns(s, "create_booking") /\ IsSaved(ret'[s]))
             => BOOKINGS' = Append(BOOKINGS,
                                   Booking(call[s].args, ret'[s].confirmation_id))
       /\ (\A s \in Sessions :
               ~(Returns(s, "create_booking") /\ IsSaved(ret'[s])))
          => BOOKINGS' = BOOKINGS]_vars

C9_Witness ==
    /\ Len(BOOKINGS) >= 2
    /\ BOOKINGS[1] # BOOKINGS[2]
    /\ \E s \in Sessions : Finished(s, "get_slots")

\* the calls of the log that returned a confirmation
SavedCalls(l) ==
    LET WasSaved(e) == IsSaved(e.ret) IN SelectSeq(l, WasSaved)

\* C10: a create_booking that returns slot_unavailable leaves BOOKINGS, SLOTS
\* and ACCEPTED_INSURERS as they were, and the ledger and the other calls'
\* return values are those of the run without the failed calls.
C10_FailedBookingLeavesState ==
    /\ [][\A s \in Sessions :
            (Returns(s, "create_booking") /\ ret'[s] = SlotUnavailable)
            => backend' = backend]_vars
    /\ [](LET kept == SavedCalls(log)
              r == Replay(kept)
          IN  /\ BOOKINGS = r.bookings
              /\ \A k \in 1..Len(kept) : kept[k].ret = r.rets[k])

\* a failed call, then a saved one
C10_Witness ==
    \E k \in 1..Len(log) :
        /\ k < Len(log)
        /\ log[k].ret = SlotUnavailable
        /\ IsSaved(log[k + 1].ret)
        /\ BOOKINGS # <<>>

\* ------------------------------------------------- reading start_iso back
DigitVal(c) == CHOOSE k \in 0..9 : Digits[k + 1] = c

RECURSIVE Num(_)
Num(str) ==
    IF str = <<>> THEN 0
    ELSE 10 * Num(SubSeq(str, 1, Len(str) - 1)) + DigitVal(str[Len(str)])

\* the date (YYYY-MM-DD) a start_iso falls on
DatePart(iso) == SubSeq(iso, 1, 10)

\* a number that grows with the day a YYYY-MM-DD... string denotes
DayKey(iso) ==
    (Num(SubSeq(iso, 1, 4)) * 13 + Num(SubSeq(iso, 6, 7))) * 32
      + Num(SubSeq(iso, 9, 10))

\* the second of the day a YYYY-MM-DDTHH:MM:SS string denotes
SecondOfDay(iso) ==
    (Num(SubSeq(iso, 12, 13)) * 60 + Num(SubSeq(iso, 15, 16))) * 60
      + Num(SubSeq(iso, 18, 19))

\* start a is earlier than start b
Earlier(a, b) ==
    \/ DayKey(a) < DayKey(b)
    \/ DayKey(a) = DayKey(b) /\ SecondOfDay(a) < SecondOfDay(b)

\* the slots of a list are in strictly ascending start order
Ascending(slots) ==
    \A k \in 1..(Len(slots) - 1) :
        Earlier(slots[k].start_iso, slots[k + 1].start_iso)

\* str is a YYYY-MM-DD string
IsDateString(str) ==
    /\ str # None
    /\ Len(str) = 10
    /\ \A k \in 1..10 :
          IF k \in {5, 8} THEN str[k] = "-"
          ELSE \E n \in 1..10 : Digits[n] = str[k]

\* indices of the catalog slots that fall on the date
SlotsOn(date) ==
    {i \in 1..Len(SLOTS) : date # None /\ DatePart(SLOTS[i].start_iso) = date}

\* C11 (date filtering): when get_slots is given a date on which at least one
\* catalog slot falls, it returns at most 3 slots, all of them catalog slots
\* on exactly that date, in ascending start order, and no catalog slot of
\* that date that it leaves out is earlier than one it returns.
C11_DateFiltering ==
    \A s \in Sessions :
        (Finished(s, "get_slots") /\ SlotsOn(call[s].date_pref) # {}) =>
            LET on == SlotsOn(call[s].date_pref)
                R == ret[s].slots
            IN  /\ Len(R) = Min(3, Cardinality(on))
                /\ \A k \in 1..Len(R) : \E i \in on : SLOTS[i] = R[k]
                /\ Ascending(R)
                /\ \A i \in on :
                      (\A k \in 1..Len(R) : R[k] # SLOTS[i]) =>
                          \A k \in 1..Len(R) :
                              Earlier(R[k].start_iso, SLOTS[i].start_iso)

\* a date of the catalog's second or later day was asked for and answered
C11_Witness ==
    \E s \in Sessions :
        /\ Finished(s, "get_slots")
        /\ SlotsOn(call[s].date_pref) # {}
        /\ 1 \notin SlotsOn(call[s].date_pref)
        /\ Len(ret[s].slots) = 3
        /\ Len(SLOTS) > 6

\* C12: with no date_pref (None or the empty string), or with a date on
\* which no catalog slot falls, get_slots returns the first min(6, len(SLOTS))
\* slots of the catalog, in ascending start order; the result is never an
\* error, and it is the empty list when the catalog is empty.
C12_DefaultListing ==
    \A s \in Sessions :
        ( /\ Finished(s, "get_slots")
          /\ \/ call[s].date_pref = None
             \/ call[s].date_pref = <<>>
             \/ IsDateString(call[s].date_pref) /\ SlotsOn(call[s].date_pref) = {} )
        => /\ DOMAIN ret[s] = {"slots"}
           /\ Len(ret[s].slots) = Min(6, Len(SLOTS))
           /\ \A k \in 1..Len(ret[s].slots) : ret[s].slots[k] = SLOTS[k]
           /\ Ascending(ret[s].slots)
           /\ (SLOTS = <<>> => ret[s].slots = <<>>)

\* a date without slots was asked for and the first six of a longer catalog
\* came back
C12_Witness ==
    \E s \in Sessions :
        /\ Finished(s, "get_slots")
        /\ IsDateString(call[s].date_pref)
        /\ SlotsOn(call[s].date_pref) = {}
        /\ Len(SLOTS) > 6
        /\ Len(ret[s].slots) = 6

\* the empty catalog was listed
C12_WitnessEmpty ==
    \E s \in Sessions :
        Finished(s, "get_slots") /\ SLOTS = <<>> /\ ret[s].slots = <<>>

\* str is name with only whitespace before and after it
IsPadded(str, name) ==
    \E lead \in 0..Len(str) :
        /\ lead + Len(name) <= Len(str)
        /\ \A k \in 1..lead : str[k] \in Whitespace
        /\ \A k \in 1..Len(name) : str[lead + k] = name[k]
        /\ \A k \in (lead + Len(name) + 1)..Len(str) : str[k] \in Whitespace

\* C13 (insurer matching is exact after trim): check_insurance returns
\* accepted = true exactly when the name, without the whitespace around it, is
\* character for character one of the accepted names; names that are empty,
\* all whitespace, or differ from an accepted name in case are not accepted.
C13_ExactAfterTrim ==
    \A s \in Sessions :
        Finished(s, "check_insurance") =>
            LET str == call[s].insurer_name
            IN  /\ DOMAIN ret[s] = {"accepted"}
                /\ ret[s].accepted = (\E name \in ACCEPTED_INSURERS : IsPadded(str, name))
                /\ (\A k \in 1..Len(str) : str[k] \in Whitespace)
                      => ret[s].accepted = FALSE

\* a padded accepted name was accepted
C13_Witness ==
    \E s \in Sessions :
        /\ Finished(s, "check_insurance")
        /\ Len(call[s].insurer_name) > 0
        /\ call[s].insurer_name[1] \in Whitespace
        /\ ret[s].accepted = TRUE

\* the times of day of the claim, as seconds since midnight
C15_Times == <<10 * 3600, 14 * 3600 + 30 * 60, 16 * 3600>>

\* C15 (slot generation): for the reference time D and n_days = k the catalog
\* has exactly 3*k slots: one at 10:00, one at 14:30 and one at 16:00 on each
\* of the days D+1 .. D+k and none on day D or earlier; the starts are
\* pairwise distinct and strictly ascending, and every duration is 20.
C15_SlotGeneration ==
    /\ Len(SLOTS) = 3 * import_n_days
    /\ \A d \in 1..import_n_days : \A i \in 1..3 :
          LET sl == SLOTS[3 * (d - 1) + i]
              iso == sl.start_iso
              day == AddDays(import_now, d)
          IN  /\ Len(iso) = 19
              /\ iso[5] = "-" /\ iso[8] = "-" /\ iso[11] = "T"
              /\ iso[14] = ":" /\ iso[17] = ":"
              /\ Num(SubSeq(iso, 1, 4)) = day.year
              /\ Num(SubSeq(iso, 6, 7)) = day.month
              /\ Num(SubSeq(iso, 9, 10)) = day.day
              /\ SecondOfDay(iso) = C15_Times[i]
              /\ sl.duration_min = 20
    /\ \A j \in 1..Len(SLOTS) :
          DayKey(SLOTS[j].start_iso) > DayKey(IsoFormat(import_now))
    /\ \A i, j \in 1..Len(SLOTS) :
          SLOTS[i].start_iso = SLOTS[j].start_iso => i = j
    /\ Ascending(SLOTS)

\* a catalog of several days that runs over the end of a month
C15_Witness ==
    /\ import_n_days >= 2
    /\ Len(SLOTS) = 3 * import_n_days
    /\ SubSeq(SLOTS[1].start_iso, 6, 7) # SubSeq(SLOTS[Len(SLOTS)].start_iso, 6, 7)
    /\ import_now.hour >= 16
    /\ \E s \in Sessions : Finished(s, "get_slots") /\ Len(ret[s].slots) = 6

\* the calls of s and t have the same tool and the same argument
SameRead(s, t) ==
    \/ /\ Finished(s, "check_insurance") /\ Finished(t, "check_insurance")
       /\ call[s].insurer_name = call[t].insurer_name
    \/ /\ Finished(s, "get_slots") /\ Finished(t, "get_slots")
       /\ \/ call[s].date_pref = None /\ call[t].date_pref = None
          \/ /\ call[s].date_pref # None /\ call[t].date_pref # None
             /\ call[s].date_pref = call[t].date_pref

C16_SavedBookingMatchesCall ==
    [][\A s \in Sessions :
          (Returns(s, "create_booking") /\ "confirmation_id" \in DOMAIN ret'[s])
          => /\ ret'[s].saved = TRUE
             /\ Len(BOOKINGS') = Len(BOOKINGS) + 1
             /\ LET b == BOOKINGS'[Len(BOOKINGS')]
                    a == call[s].args
                IN  /\ b.id = ret'[s].confirmation_id
                    /\ b.name = a.name
                    /\ b.phone = a.phone
                    /\ b.insurer = a.insurer
                    /\ b.reason = a.reason
                    /\ b.slot_iso = a.slot_iso]_vars

C16_Witness ==
    \E s \in Sessions :
        /\ Finished(s, "create_booking")
        /\ IsSaved(ret[s])
        /\ Len(BOOKINGS) >= 2
        /\ BOOKINGS[Len(BOOKINGS)].id = ret[s].confirmation_id
        /\ BOOKINGS[Len(BOOKINGS)].name = call[s].args.name
        /\ BOOKINGS[1].name # call[s].args.name

\* C17 (read-only reads): a check_insurance or get_slots call, from its issue
\* to its return, leaves BOOKINGS, SLOTS and ACCEPTED_INSURERS as they were.
C17_ReadsChangeNothing ==
    [][\A s \in Sessions :
          ( \/ Returns(s, "check_insurance")
            \/ Returns(s, "get_slots")
            \/ (pc[s] = "idle" /\ pc'[s] = "pending"
                  /\ call'[s].op \in {"check_insurance", "get_slots"}) )
          => /\ BOOKINGS' = BOOKINGS
             /\ SLOTS' = SLOTS
             /\ ACCEPTED_INSURERS' = ACCEPTED_INSURERS]_vars

\* both read tools have returned while the ledger held a booking
C17_Witness ==
    \E s, t \in Sessions :
        /\ Finished(s, "check_insurance")
        /\ Finished(t, "get_slots")
        /\ offered_at[t] >= 1
        /\ BOOKINGS # <<>>

\* C18: no slot in a get_slots result has a start_iso that a booking in the
\* ledger references when the result is returned.
C18_OnlyAvailableSlots ==
    [][\A s \in Sessions :
          Returns(s, "get_slots") =>
              \A k \in 1..Len(ret'[s].slots) :
                  BookingsOf(BOOKINGS, ret'[s].slots[k].start_iso) = {}]_vars

\* C19: every booking in the ledger has a non-empty reason.
C19_ReasonNonEmpty ==
    \A i \in 1..Len(BOOKINGS) : BOOKINGS[i].reason # ""

====
